---- MODULE Spec2Model ----
(***************************************************************************)
(* Model of the Rick and Morty API gateway core:                           *)
(*   - SimpleRateLimiter (src/rate_limiter.py): sliding-window admission   *)
(*     control with opportunistic idle cleanup;                            *)
(*   - RickAndMortyClient (src/client.py): the retry / backoff / error     *)
(*     classification loop of _make_request and the pagination loop of     *)
(*     get_all_resources.                                                  *)
(* Time is counted in whole seconds; the clock (time.time()) never runs    *)
(* backwards.                                                              *)
(***************************************************************************)
EXTENDS Integers, Sequences, FiniteSets, TLC

(***************************************************************************)
(* Bounds of the model                                                     *)
(***************************************************************************)
\* client keys (request.client.host values) seen by the limiter
IPs == {"a", "b"}
\* SimpleRateLimiter(requests_per_minute=...): the configured limit
requests_per_minute == 2
\* number of further 300-second periods the clock runs through
MaxPeriod == 2
\* clock readings explored inside each 300-second period
Offsets == {0, 59, 60, 61}
\* seconds that may pass between the two time.time() readings of one check
Lags == {0, 1}
\* RickAndMortyClient(max_retries=...): largest configured value explored
MaxRetries == 3
\* most pages the upstream serves for one collection
MaxPages == 3
\* most resources on one page
MaxResults == 2
\* longest filter value explored, in characters
MaxValueLen == 2

(***************************************************************************)
(* Program constants of the rate limiter                                   *)
(***************************************************************************)
\* "if current_time - ts < 60"
WindowSeconds == 60
\* "current_time % 300 < 1" : the cleanup sampling period
CleanupPeriod == 300
\* "current_time - max(timestamps) > 300" : the idle threshold
IdleSeconds == 300

VARIABLES
    requests,    \* SimpleRateLimiter.requests : IP -> list of timestamps
    now,         \* the latest reading of time.time()
    last,        \* observation of the latest is_rate_limited call
    log,         \* per key: admitted timestamps less than 60s old (reference)
    lastAdmit,   \* per key: time of the most recent admission, -1 if none
    countAt,     \* per key: number of admissions at exactly lastAdmit
    lastCheck,   \* per key: current_time of the most recent check, -1 if none
    alone        \* per key: the map of a limiter that is asked about this
                 \* key only, at the times of the key's checks

limiterVars == <<requests, now, last, log, lastAdmit, countAt, lastCheck,
                 alone>>

VARIABLES
    max_retries,    \* RickAndMortyClient._max_retries
    pc,             \* where the client operation stands
    kind,           \* "one" (get_character etc.) or "all" (get_all_resources)
    attempt,        \* loop variable of _make_request
    responses,      \* upstream outcomes of the HTTP calls of this _make_request
    sleeps,         \* asyncio.sleep durations of this _make_request, in order
    result,         \* how the latest _make_request ended
    next_url,       \* endpoint of the current _make_request
    fetched,        \* URLs requested by this operation, in order
    all_resources,  \* accumulator of get_all_resources
    served,         \* the pages get_all_resources has read so far
    outcome         \* how the operation ended, as seen by its caller

clientVars == <<max_retries, pc, kind, attempt, responses, sleeps, result,
                next_url, fetched, all_resources, served, outcome>>

\* Building the endpoint of a filtered collection (get_characters etc.)
VARIABLES
    filters,        \* the filters argument: entries in insertion order
    query_endpoint  \* "endpoint" of get_characters (empty: not built yet)

queryVars == <<filters, query_endpoint>>

\* The HTTP service of api_service.py
VARIABLES
    inbound,        \* per handler slot: the inbound request it is serving
    cache           \* the Redis cache: cache key -> stored data

serviceVars == <<inbound, cache>>

\* The background task download_data_task
VARIABLES
    main,           \* where download_data_task stands
    session,        \* the aiohttp session of its client: none, open, closed
    tasks,          \* per fetch task: its state and the pages it has read
    files           \* the files written

downloadVars == <<main, session, tasks, files>>

\* everything but the rate limiter and the upstream client
appVars == <<queryVars, serviceVars, downloadVars>>

vars == <<requests, now, last, log, lastAdmit, countAt, lastCheck, alone,
          max_retries, pc, kind, attempt, responses, sleeps, result,
          next_url, fetched, all_resources, served, outcome,
          filters, query_endpoint, inbound, cache,
          main, session, tasks, files>>

(***************************************************************************)
(* Helpers                                                                 *)
(***************************************************************************)
RECURSIVE SeqMax(_)
\* max(timestamps) of a non-empty list
SeqMax(s) ==
    IF Len(s) = 1 THEN s[1]
    ELSE LET m == SeqMax(Tail(s)) IN IF s[1] > m THEN s[1] ELSE m

\* variant: the prune compares with the idle threshold instead of the window
Prune_IdleWindow(timestamps, current_time) ==
    SelectSeq(timestamps, LAMBDA ts : current_time - ts < 300)

\* variant: the pruned list is computed but never stored
Prune_KeepAll(timestamps, current_time) == timestamps

\* [ts for ts in self.requests[ip] if current_time - ts < 60]
Prune(timestamps, current_time) ==
    SelectSeq(timestamps, LAMBDA ts : current_time - ts < WindowSeconds)

\* variant: the limit test is strict
OverLimit_Strict(timestamps) == Len(timestamps) > requests_per_minute

\* "if len(self.requests[ip]) >= self.requests_per_minute"
OverLimit(timestamps) == Len(timestamps) >= requests_per_minute

\* "if current_time % 300 < 1"
CleanupDue(current_time) == current_time % CleanupPeriod < 1

\* variant: a key is idle as soon as its latest timestamp lies in the past
IsIdle_NoGrace(timestamps, current_time) ==
    \/ timestamps = <<>>
    \/ current_time - SeqMax(timestamps) > 0

\* "if not timestamps or current_time - max(timestamps) > 300"
IsIdle(timestamps, current_time) ==
    \/ timestamps = <<>>
    \/ current_time - SeqMax(timestamps) > IdleSeconds

\* SimpleRateLimiter._cleanup: delete every idle key
_cleanup(reqs, current_time) ==
    LET keep == {ip \in DOMAIN reqs : ~IsIdle(reqs[ip], current_time)}
    IN  [ip \in keep |-> reqs[ip]]

\* variant: the timestamp is appended before the limit test, so a rejected
\* check is recorded too
is_rate_limited_RecordsRejection(reqs, ip, current_time, cleanup_time) ==
    LET r0 == IF ip \in DOMAIN reqs THEN reqs ELSE (ip :> <<>>) @@ reqs
        r1 == [r0 EXCEPT ![ip] = Prune(r0[ip], current_time)]
        r2 == [r1 EXCEPT ![ip] = Append(r1[ip], current_time)]
    IN  IF OverLimit(r1[ip])
        THEN [requests |-> r2, limited |-> TRUE, cleaned |-> FALSE,
              clock |-> current_time]
        ELSE IF CleanupDue(current_time)
             THEN [requests |-> _cleanup(r2, cleanup_time), limited |-> FALSE,
                   cleaned |-> TRUE, clock |-> cleanup_time]
             ELSE [requests |-> r2, limited |-> FALSE, cleaned |-> FALSE,
                   clock |-> current_time]

\* SimpleRateLimiter.is_rate_limited as a function of the stored map, the
\* key, the first clock reading and the clock reading taken by _cleanup.
\* Yields the new map, the returned boolean and what the call did.
is_rate_limited(reqs, ip, current_time, cleanup_time) ==
    LET r0 == IF ip \in DOMAIN reqs THEN reqs ELSE (ip :> <<>>) @@ reqs
        r1 == [r0 EXCEPT ![ip] = Prune(r0[ip], current_time)]
        r2 == [r1 EXCEPT ![ip] = Append(r1[ip], current_time)]
    IN  IF OverLimit(r1[ip])
        THEN [requests |-> r1, limited |-> TRUE, cleaned |-> FALSE,
              clock |-> current_time]
        ELSE IF CleanupDue(current_time)
             THEN [requests |-> _cleanup(r2, cleanup_time), limited |-> FALSE,
                   cleaned |-> TRUE, clock |-> cleanup_time]
             ELSE [requests |-> r2, limited |-> FALSE, cleaned |-> FALSE,
                   clock |-> current_time]

\* reference: the timestamps of a list that are less than 60 seconds old
\* at time t, i.e. that lie in the trailing window of a check at t
Counting(timestamps, t) == SelectSeq(timestamps, LAMBDA ts : t - ts < 60)

NoCall == [ip |-> "none", time |-> -1, limited |-> FALSE, cleaned |-> FALSE,
           preCount |-> 0, t0 |-> -1, n0 |-> 0, aloneLimited |-> FALSE]

(***************************************************************************)
(* Rate limiter: initial state and the admission check                     *)
(***************************************************************************)
LimiterInit ==
    /\ requests = << >>
    /\ now = 0
    /\ last = NoCall
    /\ log = [ip \in IPs |-> <<>>]
    /\ lastAdmit = [ip \in IPs |-> -1]
    /\ countAt = [ip \in IPs |-> 0]
    /\ lastCheck = [ip \in IPs |-> -1]
    /\ alone = [ip \in IPs |-> << >>]

\* One call of is_rate_limited(ip) that reads the clock at current_time;
\* lag is the delay of the clock reading inside _cleanup.
Admit(ip, current_time, lag) ==
    LET res == is_rate_limited(requests, ip, current_time, current_time + lag)
        seen == Counting(log[ip], current_time)
        \* the same call on a limiter that has served no other key
        own == is_rate_limited(alone[ip], ip, current_time, current_time + lag)
    IN  /\ current_time >= now
        /\ requests' = res.requests
        /\ now' = res.clock
        /\ last' = [ip |-> ip, time |-> current_time, limited |-> res.limited,
                    cleaned |-> res.cleaned, preCount |-> Len(seen),
                    t0 |-> lastAdmit[ip], n0 |-> countAt[ip],
                    aloneLimited |-> own.limited]
        /\ log' = [k \in IPs |->
                     IF k = ip /\ ~res.limited
                     THEN Counting(Append(seen, current_time), res.clock)
                     ELSE Counting(log[k], res.clock)]
        /\ lastAdmit' = IF res.limited THEN lastAdmit
                        ELSE [lastAdmit EXCEPT ![ip] = current_time]
        /\ countAt' = IF res.limited THEN countAt
                      ELSE [countAt EXCEPT ![ip] =
                              IF lastAdmit[ip] = current_time THEN @ + 1 ELSE 1]
        /\ lastCheck' = [lastCheck EXCEPT ![ip] = current_time]
        /\ alone' = [alone EXCEPT ![ip] = own.requests]
        /\ UNCHANGED <<clientVars, appVars>>

(***************************************************************************)
(* Upstream client: what the upstream may answer                           *)
(***************************************************************************)
\* "if 500 <= response.status < 600"
Is5xx(status) == 500 <= status /\ status < 600

ServerStatuses == {500, 503}
\* statuses that are none of 200, 404, 429, 5xx
OtherStatuses == {400, 403}
\* the Retry-After header: missing, an HTTP date, or a number of seconds
RetryAfterHeaders == {"absent", "Wed, 21 Oct 2026 07:28:00 GMT", "5"}
\* the header values int() accepts
IsIntLiteral(text) == text \in {"5"}
\* int(text) for an accepted text
IntOf(text) == CASE text = "5" -> 5
\* what "await response.json()" does: parse, raise aiohttp.ContentTypeError
\* (an aiohttp.ClientError) or raise json.JSONDecodeError (a ValueError)
JsonOutcomes == {"parsed", "ContentTypeError", "JSONDecodeError"}
\* what session.get may raise
TransportErrors == {"ClientConnectionError", "TimeoutError"}

\* URLs and endpoints are sequences of string pieces
BASE_URL == "https://rickandmortyapi.com/api"

\* info.next is null
NoLink == <<>>

\* the endpoint of a collection and of one resource
resource_type == <<"character">>
resource_id == <<"character", "/", "1">>

\* the upstream's URL of page p of the collection
PageLink(p) == <<BASE_URL, "/", "character", "?page=", ToString(p)>>

\* url = f"{self.BASE_URL}/{endpoint}"
UrlOf(endpoint) == <<BASE_URL, "/">> \o endpoint

\* str.replace(old, ""): every occurrence of old is removed, left to right
RECURSIVE Replace(_, _)
Replace(str, old) ==
    IF Len(str) < Len(old) THEN str
    ELSE IF SubSeq(str, 1, Len(old)) = old
         THEN Replace(SubSeq(str, Len(old) + 1, Len(str)), old)
         ELSE <<Head(str)>> \o Replace(Tail(str), old)

\* next_page.replace(self.BASE_URL + "/", "")
StripBase(next_page) == Replace(next_page, <<BASE_URL, "/">>)

\* the page of the collection an endpoint asks for (no "page" parameter
\* means page 1)
PageNo(endpoint) ==
    IF \E p \in 1..MaxPages : endpoint[Len(endpoint)] = ToString(p)
    THEN CHOOSE p \in 1..MaxPages : endpoint[Len(endpoint)] = ToString(p)
    ELSE 1

NoData ==
    [hasResults |-> FALSE, count |-> 0, next |-> NoLink, hasError |-> FALSE]

\* parsed bodies of page ep of the collection: without a "results" field,
\* or with a "results" list, empty or full, and info.next either null or
\* the URL of a later page
PageBodies(ep) ==
    {NoData} \cup
    [hasResults : {TRUE}, count : {0, MaxResults},
     next : {NoLink} \cup {PageLink(p) : p \in (ep + 1)..MaxPages},
     hasError : {FALSE}]

\* parsed error bodies: with or without an "error" field
ErrorBodies == {NoData, [NoData EXCEPT !.hasError = TRUE]}

\* the "results" list of page ep: count resources
ResultsOf(ep, body) == [i \in 1..body.count |-> <<ep, i>>]

NoResult == [status |-> "none", value |-> NoData, items |-> <<>>,
             error |-> "none", status_code |-> 0, message |-> "none",
             retry_after |-> 0]

Returned(data) == [NoResult EXCEPT !.status = "returned", !.value = data]

\* get_all_resources returns its list
ReturnedList(list) == [NoResult EXCEPT !.status = "returned", !.items = list]

\* the function fell off its end: Python returns None
ReturnedNone == [NoResult EXCEPT !.status = "returned_none"]

Raised(type, code, msg, ra) ==
    [NoResult EXCEPT !.status = "raised", !.error = type,
                     !.status_code = code, !.message = msg, !.retry_after = ra]

\* the exception classes of client.py and those that escape from it
NotFoundError == Raised("NotFoundError", 404, "not found", 0)
RateLimitError(retry_after) ==
    Raised("RateLimitError", 429, "Rate limit exceeded", retry_after)
ServerError == Raised("ServerError", 500, "Internal server error", 0)
APIError(status_code, message) == Raised("APIError", status_code, message, 0)
\* aiohttp.ClientError / asyncio.TimeoutError, re-raised unchanged
TransportFailure(e) == Raised(e, 0, "none", 0)
\* int() of a malformed header, or json.JSONDecodeError
ValueError == Raised("ValueError", 0, "none", 0)
\* '"results" not in None'
TypeError == Raised("TypeError", 0, "none", 0)

ClientIdle ==
    /\ pc = "idle"
    /\ kind = "none"
    /\ attempt = 0
    /\ responses = <<>>
    /\ sleeps = <<>>
    /\ result = NoResult
    /\ next_url = <<>>
    /\ fetched = <<>>
    /\ all_resources = <<>>
    /\ served = <<>>
    /\ outcome = NoResult

\* no endpoint is being built
QueryIdle == filters = <<>> /\ query_endpoint = <<>>

\* the handler slots: requests the event loop serves at the same time
Handlers == {"h1", "h2"}

\* the routes: exempt from rate limiting, a collection, one resource
Paths == {"/health", "/characters", "/characters/1"}

IsCollection(path) == path = "/characters"

NoResponse == [status |-> 0, retry_after |-> "none"]

\* JSONResponse(status_code=..., headers={"Retry-After": ...}) and plain
\* responses, which carry no Retry-After header
JSONResponse(status_code, retry_after) ==
    [status |-> status_code, retry_after |-> retry_after]

\* a free slot.  ip is client_ip, a local of the middleware that is not
\* used after the admission check and is "none" from then on.  admission,
\* upstream and cache_ops record what was done on behalf of the request:
\* the result of its admission check, the number of client calls and the
\* number of cache accesses.
NoRequest ==
    [pc |-> "free", ip |-> "none", path |-> "none", admission |-> "none",
     upstream |-> 0, cache_ops |-> 0, client_result |-> NoResult,
     response |-> NoResponse, found |-> "none"]

\* cache_key of a route ("characters:{...}" and "character:{id}")
CacheKeys == Paths \ {"/health"}

ServiceIdle ==
    /\ inbound = [h \in Handlers |-> NoRequest]
    /\ cache = [key \in CacheKeys |-> "absent"]

\* the three fetch tasks of download_data_task, in the order awaited
TaskNames == <<"characters", "locations", "episodes">>
TaskSet == {TaskNames[i] : i \in 1..Len(TaskNames)}

NoTask == [state |-> "none", pages |-> 0]

\* download_data_task stands at pc; awaiting is the number of the fetch
\* task it is waiting for, 0 when it waits for none
MainAt(pc_, awaiting) == [pc |-> pc_, awaiting |-> awaiting]

\* download_data_task has not started
DownloadIdle ==
    /\ main = MainAt("start", 0)
    /\ session = "none"
    /\ tasks = [t \in TaskSet |-> NoTask]
    /\ files = {}

AppIdle == QueryIdle /\ ServiceIdle /\ DownloadIdle

Init == LimiterInit /\ ClientIdle /\ max_retries = MaxRetries /\ AppIdle

(***************************************************************************)
(* Upstream client: _make_request                                          *)
(***************************************************************************)
\* what every step inside _make_request leaves alone
RequestFrame ==
    /\ UNCHANGED <<max_retries, kind, next_url, fetched, all_resources,
                   served, outcome>>
    /\ UNCHANGED <<limiterVars, appVars>>

\* entering _make_request(endpoint): the for loop starts at attempt 1
BeginRequest(endpoint) ==
    /\ pc' = "call"
    /\ attempt' = 1
    /\ responses' = <<>>
    /\ sleeps' = <<>>
    /\ result' = NoResult
    /\ next_url' = endpoint

\* "await asyncio.sleep(d)" followed by the next loop iteration
SleepThenRetry(d) ==
    /\ pc' = "sleep"
    /\ sleeps' = Append(sleeps, d)
    /\ UNCHANGED <<attempt, result>>

\* _make_request ends (return or raise) with result r
EndRequest(r) ==
    /\ pc' = "req_done"
    /\ result' = r
    /\ UNCHANGED <<attempt, sleeps>>

\* variant: the exponent counts attempts from zero
Backoff_FromZero(n) == 2 ^ (n - 1)

\* "wait_time = 2 ** attempt"
Backoff(n) == 2 ^ n

\* variant: the final attempt turns the failure into a ServerError
OnTransportError_Converted(e) ==
    IF attempt < max_retries
    THEN SleepThenRetry(Backoff(attempt))
    ELSE EndRequest(ServerError)

\* variant: the except clause sleeps on the final attempt as well
OnTransportError_AlwaysSleep(e) == SleepThenRetry(Backoff(attempt))

\* the "except (aiohttp.ClientError, asyncio.TimeoutError)" clause
OnTransportError(e) ==
    IF attempt < max_retries
    THEN SleepThenRetry(Backoff(attempt))
    ELSE EndRequest(TransportFailure(e))

\* an HTTP call is about to be issued for the current attempt
AtCall == pc = "call" /\ attempt <= max_retries

\* what the loop sees of one HTTP call: the status and Retry-After header
\* of the response and what response.json() did, whether the parsed body
\* has an "error" field, and the exception session.get raised instead
Answer(status, header, json) ==
    [attempt |-> attempt, status |-> status, header |-> header,
     json |-> json, error_field |-> FALSE, exception |-> "none"]

Observe(status, header, json) ==
    responses' = Append(responses, Answer(status, header, json))

\* ... of a call answered with an error body
ObserveBody(status, json, body) ==
    responses' = Append(responses,
        [Answer(status, "absent", json)
            EXCEPT !.error_field = (json = "parsed" /\ body.hasError)])

\* ... of a call that raised e
ObserveFailure(e) ==
    responses' = Append(responses,
        [Answer(0, "absent", "none") EXCEPT !.exception = e])

\* "range(1, self._max_retries + 1)" is exhausted: the function ends
\* without a return statement
LoopExit ==
    /\ pc = "call" /\ attempt > max_retries
    /\ EndRequest(ReturnedNone)
    /\ UNCHANGED responses
    /\ RequestFrame

\* session.get raises aiohttp.ClientError or asyncio.TimeoutError
TransportError(e) ==
    /\ AtCall
    /\ ObserveFailure(e)
    /\ OnTransportError(e)
    /\ RequestFrame

\* variant: a 429 is retried with the exponential delay
Resp429_Exponential(header) ==
    /\ AtCall
    /\ Observe(429, header, "none")
    /\ IF header # "absent" /\ ~IsIntLiteral(header)
       THEN EndRequest(ValueError)
       ELSE LET retry_after == IF header = "absent" THEN 60 ELSE IntOf(header)
            IN  IF attempt = max_retries
                THEN EndRequest(RateLimitError(retry_after))
                ELSE SleepThenRetry(Backoff(attempt))
    /\ RequestFrame

\* "if response.status == 429"
Resp429(header) ==
    /\ AtCall
    /\ Observe(429, header, "none")
    /\ IF header # "absent" /\ ~IsIntLiteral(header)
       THEN EndRequest(ValueError)
       ELSE LET retry_after == IF header = "absent" THEN 60 ELSE IntOf(header)
            IN  IF attempt = max_retries
                THEN EndRequest(RateLimitError(retry_after))
                ELSE SleepThenRetry(retry_after)
    /\ RequestFrame

\* variant: a 404 is handled like a server error and retried
Resp404_Retried ==
    /\ AtCall
    /\ Observe(404, "absent", "none")
    /\ IF attempt = max_retries
       THEN EndRequest(NotFoundError)
       ELSE SleepThenRetry(Backoff(attempt))
    /\ RequestFrame

\* "if response.status == 404"
Resp404 ==
    /\ AtCall
    /\ Observe(404, "absent", "none")
    /\ EndRequest(NotFoundError)
    /\ RequestFrame

\* "if 500 <= response.status < 600"
Resp5xx(status) ==
    /\ AtCall
    /\ Is5xx(status)
    /\ Observe(status, "absent", "none")
    /\ IF attempt = max_retries
       THEN EndRequest(ServerError)
       ELSE SleepThenRetry(Backoff(attempt))
    /\ RequestFrame

\* "if response.status != 200"
RespOther(status, json, body) ==
    /\ AtCall
    /\ status \notin {200, 404, 429} /\ ~Is5xx(status)
    /\ ObserveBody(status, json, body)
    /\ CASE json = "ContentTypeError" -> OnTransportError("ContentTypeError")
         [] json = "JSONDecodeError" -> EndRequest(ValueError)
         [] OTHER ->
              EndRequest(APIError(status, IF body.hasError THEN "upstream"
                                          ELSE "Unknown error"))
    /\ RequestFrame

\* status 200: "return await response.json()"
Resp200(json, body) ==
    /\ AtCall
    /\ Observe(200, "absent", json)
    /\ CASE json = "ContentTypeError" -> OnTransportError("ContentTypeError")
         [] json = "JSONDecodeError" -> EndRequest(ValueError)
         [] OTHER -> EndRequest(Returned(body))
    /\ RequestFrame

\* the sleep is over: "continue" with the next attempt
Wake ==
    /\ pc = "sleep"
    /\ pc' = "call"
    /\ attempt' = attempt + 1
    /\ UNCHANGED <<responses, sleeps, result>>
    /\ RequestFrame

(***************************************************************************)
(* Upstream client: the operations                                         *)
(***************************************************************************)
CanStart == pc \in {"idle", "done"}

\* get_character / get_location / get_episode: one _make_request
get_character ==
    /\ CanStart
    /\ kind' = "one"
    /\ BeginRequest(resource_id)
    /\ fetched' = <<UrlOf(resource_id)>>
    /\ all_resources' = <<>>
    /\ served' = <<>>
    /\ outcome' = NoResult
    /\ UNCHANGED max_retries
    /\ UNCHANGED <<limiterVars, appVars>>

\* ... and its result or exception goes to the caller as it is
FetchOneDone ==
    /\ pc = "req_done" /\ kind = "one"
    /\ pc' = "done"
    /\ outcome' = result
    /\ UNCHANGED <<max_retries, kind, attempt, responses, sleeps, result,
                   next_url, fetched, all_resources, served>>
    /\ UNCHANGED <<limiterVars, appVars>>

\* get_all_resources: "all_resources = []; next_url = resource_type"
get_all_resources ==
    /\ CanStart
    /\ kind' = "all"
    /\ BeginRequest(resource_type)
    /\ fetched' = <<UrlOf(resource_type)>>
    /\ all_resources' = <<>>
    /\ served' = <<>>
    /\ outcome' = NoResult
    /\ UNCHANGED max_retries
    /\ UNCHANGED <<limiterVars, appVars>>

\* the operation get_all_resources ends with o
EndAll(o) ==
    /\ pc' = "done"
    /\ outcome' = o
    /\ UNCHANGED <<max_retries, kind, attempt, responses, sleeps, result,
                   next_url, fetched>>

AfterPage == pc = "req_done" /\ kind = "all"

\* variant: a page without "results" ends the fetch with an empty list
PageWithoutResults_Dropped ==
    /\ AfterPage
    /\ result.status = "returned" /\ ~result.value.hasResults
    /\ EndAll(ReturnedList(<<>>))
    /\ UNCHANGED <<all_resources, served>>
    /\ UNCHANGED <<limiterVars, appVars>>

\* 'if "results" not in data: break', then "return all_resources"
PageWithoutResults ==
    /\ AfterPage
    /\ result.status = "returned" /\ ~result.value.hasResults
    /\ EndAll(ReturnedList(all_resources))
    /\ UNCHANGED <<all_resources, served>>
    /\ UNCHANGED <<limiterVars, appVars>>

\* variant: the next link is used as the endpoint as it is
FollowLink_Unstripped(next_page) ==
    /\ BeginRequest(next_page)
    /\ fetched' = Append(fetched, UrlOf(next_page))

\* "next_url = next_page.replace(...)" and the request of the next loop
\* iteration
FollowLink(next_page) ==
    /\ BeginRequest(StripBase(next_page))
    /\ fetched' = Append(fetched, UrlOf(StripBase(next_page)))

\* "all_resources.extend(...)", then follow info.next or stop ("while
\* next_url" ends on None and on the empty string)
PageWithResults ==
    /\ AfterPage
    /\ result.status = "returned" /\ result.value.hasResults
    /\ UNCHANGED <<limiterVars, appVars>>
    /\ served' = Append(served, result.value)
    /\ LET acc == all_resources \o ResultsOf(PageNo(next_url), result.value)
           next_page == result.value.next
       IN  /\ all_resources' = acc
           /\ IF next_page # NoLink /\ StripBase(next_page) # <<>>
              THEN /\ FollowLink(next_page)
                   /\ UNCHANGED <<max_retries, kind, outcome>>
              ELSE EndAll(ReturnedList(acc))

\* _make_request gave None: '"results" not in data' raises TypeError
PageNone ==
    /\ AfterPage
    /\ result.status = "returned_none"
    /\ EndAll(TypeError)
    /\ UNCHANGED <<all_resources, served>>
    /\ UNCHANGED <<limiterVars, appVars>>

\* variant: get_all_resources has no "except NotFoundError" clause
PageNotFound_Propagates ==
    /\ AfterPage
    /\ result.status = "raised" /\ result.error = "NotFoundError"
    /\ EndAll(result)
    /\ UNCHANGED <<all_resources, served>>
    /\ UNCHANGED <<limiterVars, appVars>>

\* "except NotFoundError: return []"
PageNotFound ==
    /\ AfterPage
    /\ result.status = "raised" /\ result.error = "NotFoundError"
    /\ EndAll(ReturnedList(<<>>))
    /\ UNCHANGED <<all_resources, served>>
    /\ UNCHANGED <<limiterVars, appVars>>

\* any other exception leaves get_all_resources
PageRaised ==
    /\ AfterPage
    /\ result.status = "raised" /\ result.error # "NotFoundError"
    /\ EndAll(result)
    /\ UNCHANGED <<all_resources, served>>
    /\ UNCHANGED <<limiterVars, appVars>>

\* the bodies the upstream may send with status 200
Bodies == IF kind = "all" THEN PageBodies(PageNo(next_url)) ELSE {NoData}

ClientInit ==
    LimiterInit /\ ClientIdle /\ max_retries \in 0..MaxRetries /\ AppIdle

ClientNext ==
    \/ get_character
    \/ get_all_resources
    \/ LoopExit
    \/ \E e \in TransportErrors : TransportError(e)
    \/ \E header \in RetryAfterHeaders : Resp429(header)
    \/ Resp404
    \/ \E status \in ServerStatuses : Resp5xx(status)
    \/ \E status \in OtherStatuses, json \in JsonOutcomes,
          body \in ErrorBodies : RespOther(status, json, body)
    \/ \E json \in JsonOutcomes, body \in Bodies : Resp200(json, body)
    \/ Wake
    \/ FetchOneDone
    \/ PageWithoutResults
    \/ PageWithResults
    \/ PageNone
    \/ PageNotFound
    \/ PageRaised

ClientSpec == ClientInit /\ [][ClientNext]_vars

\* the clock readings of the safety specification
Times == {p * CleanupPeriod + o : p \in 0..MaxPeriod, o \in Offsets}

Next == \E ip \in IPs, t \in Times, lag \in Lags : Admit(ip, t, lag)

Spec == Init /\ [][Next]_vars

(***************************************************************************)
(* Upstream client: the endpoint of a filtered collection.  Strings are    *)
(* sequences of pieces: a key is one piece, a value is a sequence of       *)
(* characters.                                                             *)
(***************************************************************************)
\* the characters a filter value is made of
Chars == {"R", "&", "=", "?", "/", " "}

\* the filter values as f"{v}" prints them
Texts == UNION {[1..n -> Chars] : n \in 0..MaxValueLen}

None == [isNone |-> TRUE, text |-> <<>>]
Text(t) == [isNone |-> FALSE, text |-> t]
FilterValues == {None} \cup {Text(t) : t \in Texts}

\* the page filter: None or a number, printed as its digits
PageValues == {None, Text(<<"2">>)}

\* one entry of a filter mapping
Entry(k, v) == [key |-> k, value |-> v]

\* the filter mappings, entries in insertion order: empty, a name, or a
\* name and a page, each with a value or None
FilterMappings ==
    {<<>>}
    \cup {<<Entry("name", v)>> : v \in FilterValues}
    \cup {<<Entry("name", v), Entry("page", p)>> :
              v \in FilterValues, p \in PageValues}

\* sep.join(parts)
RECURSIVE Join(_, _)
Join(parts, sep) ==
    IF parts = <<>> THEN <<>>
    ELSE IF Len(parts) = 1 THEN parts[1]
         ELSE parts[1] \o sep \o Join(Tail(parts), sep)

\* "... for k, v in filters.items() if v is not None"
Present(f) == SelectSeq(f, LAMBDA e : ~e.value.isNone)

\* f"{k}={v}"
Pair(e) == <<e.key, "=">> \o e.value.text

\* query_params = "&".join(...)
QueryParams(f) ==
    Join([i \in 1..Len(Present(f)) |-> Pair(Present(f)[i])], <<"&">>)

\* the endpoint get_characters hands to get_all_resources
Endpoint(f) ==
    IF f # <<>> /\ QueryParams(f) # <<>>
    THEN <<"character", "/", "?">> \o QueryParams(f)
    ELSE <<"character">>

\* get_characters / get_locations / get_episodes build the endpoint
get_characters ==
    /\ query_endpoint = <<>>
    /\ query_endpoint' = Endpoint(filters)
    /\ UNCHANGED filters
    /\ UNCHANGED <<limiterVars, clientVars, serviceVars, downloadVars>>

QueryInit ==
    /\ LimiterInit /\ ClientIdle /\ max_retries = MaxRetries
    /\ filters \in FilterMappings
    /\ query_endpoint = <<>>
    /\ ServiceIdle
    /\ DownloadIdle

QueryNext == get_characters

QuerySpec == QueryInit /\ [][QueryNext]_vars

(***************************************************************************)
(* The HTTP service: rate limiting middleware, cache and routes.  Handlers *)
(* are coroutines of one event loop: each action is the code between two   *)
(* awaits of one handler, and actions of different handlers interleave.    *)
(***************************************************************************)
\* the clock readings of the service's admission checks
ServiceTimes == {0, 59, 2 * CleanupPeriod}
\* the two clock readings of one check made by the service are the same
ServiceLags == {0}

\* how a call of the upstream client made by a route can end, for the
\* client the routes build (RickAndMortyClient(), max_retries = 3)
ClientResults(path) ==
    (IF IsCollection(path)
     THEN {ReturnedList(<<>>), ReturnedList(<<<<1, 1>>>>)}
     ELSE {Returned(NoData), NotFoundError})
    \cup {RateLimitError(5), ServerError, APIError(403, "Unknown error"),
          TransportFailure("TimeoutError")}

\* the data a successful client call of the route gave, as the cache
\* stores it: a collection route gets a list, a by-id route an object
DataOf(path, r) ==
    IF IsCollection(path)
    THEN IF r.items = <<>> THEN "empty" ELSE "items"
    ELSE "object"

\* "if cached_data": None and an empty list are falsy
Truthy(data) == data \notin {"absent", "empty"}

\* the exception handlers registered with app.exception_handler; any
\* other exception becomes a 500 response
ExceptionResponse(exc) ==
    CASE exc.error = "NotFoundError" -> JSONResponse(404, "none")
      [] exc.error = "RateLimitError" ->
            JSONResponse(429, ToString(exc.retry_after))
      [] exc.error = "ServerError" -> JSONResponse(503, "none")
      [] exc.error = "APIError" -> JSONResponse(exc.status_code, "none")
      [] OTHER -> JSONResponse(500, "none")

\* the response to a route whose client call raised exc: the collection
\* routes catch Exception and raise HTTPException(500), the by-id routes
\* leave the exception to the handlers
RouteError(path, exc) ==
    IF IsCollection(path)
    THEN JSONResponse(500, "none")
    ELSE ExceptionResponse(exc)

\* what no step of the service touches
ServiceFrame ==
    UNCHANGED <<last, lastAdmit, countAt, lastCheck, alone, clientVars,
                queryVars, downloadVars>>

\* a request from ip for path arrives and gets a handler
Receive(h, ip, path) ==
    /\ inbound[h].pc \in {"free", "responded"}
    /\ inbound' = [inbound EXCEPT ![h] =
                      [NoRequest EXCEPT !.pc = "received", !.ip = ip,
                                        !.path = path]]
    /\ UNCHANGED <<requests, now, log, cache>>
    /\ ServiceFrame

\* variant: a rejected request is passed on to its route all the same
Rejected_PassedOn(req) ==
    [req EXCEPT !.pc = "route", !.ip = "none", !.admission = "rejected"]

\* "return JSONResponse(status_code=429, ..., headers={"Retry-After": "60"})"
Rejected(req) ==
    [req EXCEPT !.pc = "responded", !.ip = "none", !.admission = "rejected",
                !.response = JSONResponse(429, "60")]

\* variant: the check has a suspension point between its read and its
\* write, and a handler of the same key that read the map before this
\* check writes its copy back after it
Recorded_Overwritten(h, res) ==
    IF \E g \in Handlers \ {h} :
          inbound[g].pc = "received" /\ inbound[g].ip = inbound[h].ip
    THEN requests
    ELSE res.requests

\* self.requests after the check res of handler h: is_rate_limited has no
\* await, so no other handler runs between its read and its write
Recorded(h, res) == res.requests

\* rate_limiting_middleware up to "await call_next(request)" or its own
\* response; /health is passed on unchecked and answers at once
rate_limiting_middleware(h, current_time, lag) ==
    LET req == inbound[h]
        res == is_rate_limited(requests, req.ip, current_time,
                               current_time + lag)
        counted == Counting(log[req.ip], current_time)
    IN  /\ req.pc = "received"
        /\ IF req.path = "/health"
           THEN /\ inbound' = [inbound EXCEPT ![h] =
                                 [req EXCEPT !.pc = "responded",
                                             !.ip = "none",
                                             !.admission = "exempt",
                                             !.response = JSONResponse(200, "none")]]
                /\ UNCHANGED <<requests, now, log>>
           ELSE /\ current_time >= now
                /\ requests' = Recorded(h, res)
                /\ now' = res.clock
                /\ log' = [k \in IPs |->
                             IF k = req.ip /\ ~res.limited
                             THEN Counting(Append(counted, current_time), res.clock)
                             ELSE Counting(log[k], res.clock)]
                /\ inbound' = [inbound EXCEPT ![h] =
                                 IF res.limited
                                 THEN Rejected(req)
                                 ELSE [req EXCEPT !.pc = "route",
                                                  !.ip = "none",
                                                  !.admission = "allowed"]]
        /\ UNCHANGED cache
        /\ ServiceFrame

\* the route up to its first await: "cached_data = await get_cache(key)";
\* a RedisError is logged and reads as a miss
get_cache(h, redis_ok) ==
    LET req == inbound[h]
        cached_data == IF redis_ok THEN cache[req.path] ELSE "absent"
        \* what Redis held under the key during a read that went on to the
        \* client, kept until the client is called
        found == IF redis_ok THEN cache[req.path] ELSE "RedisError"
    IN  /\ req.pc = "route"
        /\ inbound' = [inbound EXCEPT ![h] =
                         IF Truthy(cached_data)
                         THEN [req EXCEPT !.pc = "responded",
                                          !.cache_ops = @ + 1,
                                          !.response = JSONResponse(200, "none")]
                         ELSE [req EXCEPT !.pc = "fetch", !.cache_ops = @ + 1,
                                          !.found = found]]
        /\ UNCHANGED <<requests, now, log, cache>>
        /\ ServiceFrame

\* "data = await client.get_characters(...)" / client.get_character(...)
\* ends with r
Fetch(h, r) ==
    LET req == inbound[h]
    IN  /\ req.pc = "fetch"
        /\ inbound' = [inbound EXCEPT ![h] =
                         IF r.status = "returned"
                         THEN [req EXCEPT !.pc = "store", !.upstream = @ + 1,
                                          !.client_result = r,
                                          !.found = "none"]
                         ELSE [req EXCEPT !.pc = "responded",
                                          !.upstream = @ + 1,
                                          !.client_result = r,
                                          !.found = "none",
                                          !.response = RouteError(req.path, r)]]
        /\ UNCHANGED <<requests, now, log, cache>>
        /\ ServiceFrame

\* "await set_cache(cache_key, data); return data"
set_cache(h, redis_ok) ==
    LET req == inbound[h]
    IN  /\ req.pc = "store"
        /\ cache' = IF redis_ok
                    THEN [cache EXCEPT ![req.path] = DataOf(req.path, req.client_result)]
                    ELSE cache
        /\ inbound' = [inbound EXCEPT ![h] =
                         [req EXCEPT !.pc = "responded", !.cache_ops = @ + 1,
                                     !.response = JSONResponse(200, "none")]]
        /\ UNCHANGED <<requests, now, log>>
        /\ ServiceFrame

\* a cache entry reaches its TTL (ex=CACHE_TTL)
Expire(key) ==
    /\ cache[key] # "absent"
    /\ cache' = [cache EXCEPT ![key] = "absent"]
    /\ UNCHANGED <<requests, now, log, inbound>>
    /\ ServiceFrame

ServiceNext ==
    \/ \E h \in Handlers, ip \in IPs, path \in Paths : Receive(h, ip, path)
    \/ \E h \in Handlers, t \in ServiceTimes, lag \in ServiceLags :
          rate_limiting_middleware(h, t, lag)
    \/ \E h \in Handlers, redis_ok \in BOOLEAN : get_cache(h, redis_ok)
    \/ \E h \in Handlers : \E r \in ClientResults(inbound[h].path) : Fetch(h, r)
    \/ \E h \in Handlers, redis_ok \in BOOLEAN : set_cache(h, redis_ok)
    \/ \E key \in CacheKeys : Expire(key)

ServiceSpec == Init /\ [][ServiceNext]_vars

(***************************************************************************)
(* The background download: download_data_task and its three fetch tasks.  *)
(* Each action is the code of one coroutine between two awaits.            *)
(***************************************************************************)
\* what no step of the download touches
DownloadFrame == UNCHANGED <<limiterVars, clientVars, queryVars, serviceVars>>

\* "async with RickAndMortyClient() as client" opens the session, and the
\* three asyncio.create_task calls start the fetches; the task then waits
\* for the first of them
StartTasks ==
    /\ main.pc = "start"
    /\ session' = "open"
    /\ tasks' = [t \in TaskSet |-> [state |-> "running", pages |-> 0]]
    /\ main' = MainAt("await", 1)
    /\ UNCHANGED files
    /\ DownloadFrame

\* one page request of fetch task t: it reads a page and goes on, reads
\* the last page and returns, or fails; on a closed session every request
\* fails
FetchPage(t, answer) ==
    /\ tasks[t].state = "running"
    /\ answer = "page" => tasks[t].pages < MaxPages - 1
    /\ session = "closed" => answer = "error"
    /\ tasks' = [tasks EXCEPT ![t] =
                    CASE answer = "page" -> [@ EXCEPT !.pages = @ + 1]
                      [] answer = "last" ->
                            [state |-> "returned", pages |-> @.pages + 1]
                      [] OTHER -> [@ EXCEPT !.state = "raised"]]
    /\ UNCHANGED <<main, session, files>>
    /\ DownloadFrame

\* "characters = await characters_task" and the two awaits after it, one
\* at a time: the result of a finished fetch is taken and the next one is
\* awaited; the exception of a failed fetch leaves the "async with" block,
\* whose __aexit__ closes the session, and is logged
Await ==
    /\ main.pc = "await"
    /\ tasks[TaskNames[main.awaiting]].state \in {"returned", "raised"}
    /\ IF tasks[TaskNames[main.awaiting]].state = "raised"
       THEN main' = MainAt("failed", 0) /\ session' = "closed"
       ELSE /\ main' = IF main.awaiting < Len(TaskNames)
                       THEN MainAt("await", main.awaiting + 1)
                       ELSE MainAt("write", 0)
            /\ UNCHANGED session
    /\ UNCHANGED <<tasks, files>>
    /\ DownloadFrame

\* the three json.dump calls, then __aexit__ closes the session
WriteFiles ==
    /\ main.pc = "write"
    /\ files' = TaskSet
    /\ session' = "closed"
    /\ main' = MainAt("done", 0)
    /\ UNCHANGED tasks
    /\ DownloadFrame

DownloadNext ==
    \/ StartTasks
    \/ \E t \in TaskSet, answer \in {"page", "last", "error"} : FetchPage(t, answer)
    \/ Await
    \/ WriteFiles

DownloadSpec == Init /\ [][DownloadNext]_vars

(***************************************************************************)
(* Properties of the rate limiter                                          *)
(***************************************************************************)
Checked == last.ip # "none"

\* C1: a check is allowed if and only if fewer than `limit` previously
\* admitted timestamps of the same key lie in the trailing 60-second
\* window; with exactly `limit` of them in the window it is rejected.
C1_AllowedIffBelowLimit ==
    Checked => (~last.limited <=> last.preCount < requests_per_minute)

\* the (limit+1)-th request inside one window has just been rejected
C1_Witness ==
    /\ Checked
    /\ last.limited
    /\ last.preCount = requests_per_minute

\* the stored timestamps of key ip, an absent key having none
Stored(reqs, ip) == IF ip \in DOMAIN reqs THEN reqs[ip] ELSE <<>>

\* C2: a rejected check records no timestamp and changes no later
\* decision: the timestamps that count against any key at any later time,
\* and the result of any later check, are the same as without it.
C2_RejectionChangesNothing ==
    [][ last'.limited =>
          /\ now' = last'.time
          /\ \A ip \in IPs, t \in Times :
                t >= now' =>
                  /\ Counting(Stored(requests', ip), t)
                       = Counting(Stored(requests, ip), t)
                  /\ \A lag \in Lags :
                       is_rate_limited(requests', ip, t, t + lag).limited
                         = is_rate_limited(requests, ip, t, t + lag).limited
      ]_vars

\* a check was rejected some time after the admissions that fill the window
C2_Witness ==
    /\ Checked
    /\ last.limited
    /\ last.time > last.t0
    /\ Len(Stored(requests, last.ip)) = requests_per_minute

\* C3: after exactly `limit` admissions at t0 and none later, a check less
\* than 60 seconds after t0 is rejected and a check more than 60 seconds
\* after t0 is admitted.
C3_SlidingWindowExpiry ==
    (Checked /\ last.n0 = requests_per_minute) =>
        /\ last.time - last.t0 < 60 => last.limited
        /\ last.time - last.t0 > 60 => ~last.limited

\* a check 61 seconds after a full burst has been admitted
C3_Witness ==
    /\ Checked
    /\ last.n0 = requests_per_minute
    /\ last.time - last.t0 = 61
    /\ ~last.limited

\* C4: every stored timestamp of a key lies in the 60-second window that
\* ends at the key's most recent check: none is older than that check's
\* time minus 60 seconds and none is later than that time.
C4_WindowInvariant ==
    \A ip \in DOMAIN requests :
        \A i \in 1..Len(requests[ip]) :
            /\ requests[ip][i] >= lastCheck[ip] - 60
            /\ requests[ip][i] <= lastCheck[ip]

\* the latest check found only expired timestamps of its key and dropped them
C4_Witness ==
    /\ Checked
    /\ last.t0 >= 0
    /\ last.time - last.t0 >= 60
    /\ requests[last.ip] = <<last.time>>

\* C23: the result of every check of a key is the result the same check
\* gets from a limiter that has only ever been asked about that key, at the
\* same times, and the list stored for a key is the list that limiter
\* stores, whatever checks were made for other keys and whenever cleanup
\* ran.  A key that is not in the map has no timestamp that is 60 seconds
\* old or younger, and the key of the latest check is in the map.
C23_PerKeyIndependence ==
    /\ Checked =>
          /\ last.limited = last.aloneLimited
          /\ last.ip \in DOMAIN requests
          /\ ~last.limited =>
                requests[last.ip][Len(requests[last.ip])] = last.time
    /\ \A ip \in IPs :
          LET own == Stored(alone[ip], ip)
          IN  IF ip \in DOMAIN requests
              THEN requests[ip] = own
              ELSE \A i \in 1..Len(own) : now - own[i] > WindowSeconds

\* cleanup ran inside an admitted check of one key and the map has lost
\* another key that a limiter of its own would still hold
C23_Witness ==
    /\ Checked
    /\ last.cleaned
    /\ \E ip \in IPs \ {last.ip} :
          /\ ip \notin DOMAIN requests
          /\ Stored(alone[ip], ip) # <<>>

\* C21: the prune step keeps a timestamp ts exactly when now - ts <= 60, so
\* a timestamp exactly 60 seconds old still counts: after `limit` admissions
\* at t0 and none later, a check at time t is rejected if and only if
\* t - t0 <= 60.
C21_PruneBoundary ==
    (Checked /\ last.n0 = requests_per_minute) =>
        (last.limited <=> last.time - last.t0 <= 60)

(***************************************************************************)
(* Properties of _make_request                                             *)
(***************************************************************************)
\* the statuses answered to the HTTP calls of the current logical request
StatusesOf == [i \in 1..Len(responses) |-> responses[i].status]

\* the current logical request is over
Ended == pc \in {"req_done", "done"}

\* the i-th HTTP call was answered and the loop went on: it slept d seconds
\* and then made (or is about to make) attempt i + 1
SleptThenRetried(i, d) ==
    /\ Len(sleeps) >= i
    /\ sleeps[i] = d
    /\ i = Len(responses) =>
          \/ pc = "sleep" /\ attempt = i
          \/ pc = "call" /\ attempt = i + 1

\* the i-th HTTP call was the last one: no sleep followed it and the
\* logical request ended with r
EndedAt(i, r) ==
    /\ Len(responses) = i
    /\ Len(sleeps) = i - 1
    /\ Ended
    /\ result = r

\* C6: a 5xx answer on attempt k < max_retries is followed by a sleep of
\* 2^k seconds and another attempt; on attempt k = max_retries it ends the
\* request with ServerError, without a sleep.  With max_retries = 3,
\* [500,500,200] gives the sleeps 2, 4 and a success, and [500,500,500]
\* gives three calls and ServerError.
C6_ServerErrorBackoff ==
    /\ \A i \in 1..Len(responses) :
          Is5xx(responses[i].status) =>
            /\ responses[i].attempt = i
            /\ IF i < max_retries
               THEN SleptThenRetried(i, 2 ^ i)
               ELSE i = max_retries /\ EndedAt(i, ServerError)
    /\ (/\ max_retries = 3 /\ Ended
        /\ StatusesOf = <<500, 500, 200>>
        /\ responses[3].json = "parsed") =>
          /\ sleeps = <<2, 4>>
          /\ result.status = "returned"
    /\ (max_retries = 3 /\ StatusesOf = <<500, 500, 500>>) =>
          /\ sleeps = <<2, 4>>
          /\ EndedAt(3, ServerError)

\* [500, 500, 200] with max_retries = 3 has ended in a success
C6_Witness ==
    /\ max_retries = 3
    /\ pc = "req_done"
    /\ StatusesOf = <<500, 500, 200>>
    /\ sleeps = <<2, 4>>
    /\ result.status = "returned"

\* the Retry-After header is missing or a number of seconds
WellFormed(header) == header = "absent" \/ IsIntLiteral(header)

\* the delay such a header asks for
SecondsOf(header) == IF header = "absent" THEN 60 ELSE IntOf(header)

\* C7: a 429 answer on a non-final attempt is followed by a sleep of
\* exactly the Retry-After value (60 without the header), not 2^attempt,
\* and another attempt; on the final attempt it ends the request with
\* RateLimitError carrying that value, without a sleep.
C7_RateLimitedRetryAfter ==
    \A i \in 1..Len(responses) :
        (responses[i].status = 429 /\ WellFormed(responses[i].header)) =>
            /\ responses[i].attempt = i
            /\ IF i < max_retries
               THEN SleptThenRetried(i, SecondsOf(responses[i].header))
               ELSE /\ i = max_retries
                    /\ EndedAt(i, RateLimitError(
                                     SecondsOf(responses[i].header)))

\* Retry-After: 5 on attempt 1 of 3 was followed by a 5 second sleep and a
\* second HTTP call
C7_Witness ==
    /\ max_retries = 3
    /\ Len(responses) = 2
    /\ responses[1].status = 429 /\ responses[1].header = "5"
    /\ sleeps[1] = 5

\* steps the current logical request can still take
Rank ==
    CASE pc = "call" -> 2 * (max_retries - attempt) + 4
      [] pc = "sleep" -> 2 * (max_retries - attempt) + 3
      [] OTHER -> 0

\* C8: one logical request issues at most max_retries HTTP calls and at
\* most max_retries - 1 sleeps, never sleeps after its final attempt, and
\* (for max_retries >= 1) ends, after a bounded number of steps, with a
\* parsed body or a raised error.
C8_AttemptBudget ==
    /\ [](/\ Len(responses) <= max_retries
          /\ max_retries >= 1 => Len(sleeps) <= max_retries - 1
          /\ pc = "sleep" => attempt < max_retries
          /\ Ended => Len(sleeps) <= Len(responses)
          /\ pc = "req_done" => Len(sleeps) < Len(responses) \/ max_retries = 0
          /\ (max_retries >= 1 /\ pc = "req_done") =>
                result.status \in {"returned", "raised"}
          /\ (max_retries >= 1 /\ pc = "call") => attempt <= max_retries)
    /\ [][(pc \in {"call", "sleep"}) => (Rank > Rank')]_vars

\* a request used its whole budget on a 429, a 5xx and a transport failure
C8_Witness ==
    /\ max_retries = 3
    /\ pc = "req_done"
    /\ Len(responses) = 3
    /\ {429, 0} \subseteq {responses[i].status : i \in 1..3}
    /\ \E i \in 1..3 : Is5xx(responses[i].status)
    /\ Len(sleeps) = 2
    /\ result.status = "raised"

\* C9: a 404 answer on any attempt ends the logical request at once with
\* NotFoundError, with no sleep and no further HTTP call, and a
\* single-resource fetch hands that NotFoundError to its caller.
C9_NotFoundIsFinal ==
    /\ \A i \in 1..Len(responses) :
          responses[i].status = 404 => EndedAt(i, NotFoundError)
    /\ (kind = "one" /\ pc = "done" /\ result = NotFoundError) =>
          outcome = NotFoundError

\* get_character got a 404 on its second attempt and raised NotFoundError
C9_Witness ==
    /\ kind = "one"
    /\ pc = "done"
    /\ Len(responses) = 2
    /\ responses[2].status = 404
    /\ outcome = NotFoundError

\* C10: get_all_resources never raises NotFoundError; when its first page
\* request ends in NotFoundError it returns the empty list.
C10_CollectionNotFoundIsEmpty ==
    (kind = "all" /\ pc = "done") =>
        /\ outcome.error # "NotFoundError"
        /\ (Len(fetched) = 1 /\ result = NotFoundError) =>
              outcome = ReturnedList(<<>>)

\* the first page of a collection answered 404 and the call returned []
C10_Witness ==
    /\ kind = "all"
    /\ pc = "done"
    /\ Len(fetched) = 1
    /\ result = NotFoundError
    /\ outcome = ReturnedList(<<>>)

(***************************************************************************)
(* Properties of the errors the client hands to its caller                 *)
(***************************************************************************)
\* C11: a collection fetch whose page request failed hands that failure
\* to its caller, on any page, unless the failure is a NotFoundError on the
\* first page.
C11_PageFailureSurfaced ==
    (/\ kind = "all"
     /\ pc = "done"
     /\ result.status = "raised"
     /\ ~(result = NotFoundError /\ Len(fetched) = 1)) =>
        outcome = result

\* the message _make_request gives an APIError for the i-th answer
MessageOf(i) == IF responses[i].error_field THEN "upstream" ELSE "Unknown error"

\* C12: a non-200 answer other than 404, 429 and 5xx ends the logical
\* request at once with APIError(status, message), with no sleep and no
\* further HTTP call; message is the body's "error" field, and
\* "Unknown error" when the field is absent or the body is not JSON.
C12_OtherStatusIsAPIError ==
    \A i \in 1..Len(responses) :
        responses[i].status \in OtherStatuses =>
            EndedAt(i, APIError(responses[i].status, MessageOf(i)))

\* C13: a connection failure or timeout on attempt k < max_retries is
\* followed by a sleep of 2^k seconds and another attempt; on attempt
\* k = max_retries it ends the request, without a sleep, with the very
\* exception that was raised, and the operation hands it to its caller.
C13_TransportFailureBackoff ==
    /\ \A i \in 1..Len(responses) :
          responses[i].exception # "none" =>
              IF i < max_retries
              THEN SleptThenRetried(i, 2 ^ i)
              ELSE EndedAt(i, Raised(responses[i].exception, 0, "none", 0))
    /\ (pc = "done" /\ result.error \in TransportErrors) => outcome = result

\* with max_retries = 3 the connection failed twice and then timed out:
\* sleeps of 2 and 4 seconds, and the caller got the TimeoutError
C13_Witness ==
    /\ max_retries = 3
    /\ pc = "done"
    /\ Len(responses) = 3
    /\ responses[1].exception = "ClientConnectionError"
    /\ responses[2].exception = "ClientConnectionError"
    /\ responses[3].exception = "TimeoutError"
    /\ sleeps = <<2, 4>>
    /\ outcome = Raised("TimeoutError", 0, "none", 0)

\* the error kinds of the client's contract: the four typed API errors and
\* the aiohttp.ClientError / asyncio.TimeoutError family
ErrorKinds ==
    {"NotFoundError", "RateLimitError", "ServerError", "APIError"}
        \cup TransportErrors \cup {"ContentTypeError"}

\* C15: every exception a client operation raises to its caller is one of
\* NotFoundError, RateLimitError, ServerError, APIError or a
\* transport/timeout error, whatever the upstream answers.
C15_OnlyTypedErrors ==
    (pc = "done" /\ outcome.status = "raised") => outcome.error \in ErrorKinds

(***************************************************************************)
(* Properties of pagination                                                *)
(***************************************************************************)
\* the results of the first n pages read, in the order they were read
RECURSIVE ResultsUpTo(_)
ResultsUpTo(n) ==
    IF n = 0 THEN <<>>
    ELSE ResultsUpTo(n - 1) \o ResultsOf(PageNo(fetched[n]), served[n])

\* get_all_resources returned its accumulator through "return all_resources"
ReturnedAll ==
    /\ kind = "all"
    /\ pc = "done"
    /\ result.status = "returned"
    /\ outcome.status = "returned"

\* C14: in one collection fetch the first request is for the initial
\* endpoint, page N+1 is requested only when page N has been read, the
\* URL of every later request is the "next" link of the page before it,
\* nothing is requested after a page without a link, and the accumulated
\* and returned list is the concatenation of the pages' results in the
\* order read.  Three full pages with a link on pages 1 and 2 only give
\* three times MaxResults elements from the requests 1, 2, 3.
C14_PaginationOrder ==
    (kind = "all") =>
        /\ fetched[1] = UrlOf(resource_type)
        /\ Len(served) \in {Len(fetched) - 1, Len(fetched)}
        /\ \A i \in 1..Len(served) :
              IF i < Len(fetched)
              THEN fetched[i + 1] = served[i].next
              ELSE served[i].next = NoLink
        /\ all_resources = ResultsUpTo(Len(served))
        /\ ReturnedAll => outcome.items = all_resources
        /\ (/\ ReturnedAll
            /\ Len(served) = 3
            /\ \A i \in 1..3 : served[i].count = MaxResults) =>
                Len(outcome.items) = 3 * MaxResults

\* three pages of MaxResults results, with links to page 2 and to page 3
\* and none on page 3, were requested in that order and returned together
C14_Witness ==
    /\ ReturnedAll
    /\ Len(served) = 3
    /\ \A i \in 1..3 : served[i].count = MaxResults
    /\ fetched = <<UrlOf(resource_type), PageLink(2), PageLink(3)>>
    /\ served[3].next = NoLink
    /\ Len(outcome.items) = 3 * MaxResults
    /\ outcome.items = ResultsOf(1, served[1]) \o ResultsOf(2, served[2])
                            \o ResultsOf(3, served[3])

\* the last page response of a collection fetch has no "results" field
PageLacksResults ==
    /\ kind = "all"
    /\ result.status = "returned"
    /\ ~result.value.hasResults

\* C22: when a page response of a collection fetch has no "results" field,
\* the fetch ends without raising, the page is the last one requested, and
\* the call returns exactly the results of the pages read before it, which
\* is the empty list when the page is the first one.
C22_MissingResultsStops ==
    PageLacksResults =>
        /\ pc \in {"req_done", "done"}
        /\ Len(fetched) = Len(served) + 1
        /\ pc = "done" =>
              /\ outcome = ReturnedList(ResultsUpTo(Len(served)))
              /\ Len(fetched) = 1 => outcome = ReturnedList(<<>>)

\* two full pages were read and the third response had no "results" field:
\* the call has returned the results of the first two pages
C22_Witness ==
    /\ PageLacksResults
    /\ pc = "done"
    /\ Len(fetched) = 3
    /\ \A i \in 1..2 : served[i].count = MaxResults
    /\ outcome.status = "returned"
    /\ Len(outcome.items) = 2 * MaxResults

(***************************************************************************)
(* Properties of the filter query string                                   *)
(***************************************************************************)
\* str.split(sep)
RECURSIVE Split(_, _)
Split(str, sep) ==
    IF \A i \in 1..Len(str) : str[i] # sep THEN <<str>>
    ELSE LET i == CHOOSE i \in 1..Len(str) :
                     str[i] = sep /\ \A j \in 1..(i - 1) : str[j] # sep
         IN  <<SubSeq(str, 1, i - 1)>> \o Split(SubSeq(str, i + 1, Len(str)), sep)

\* one "key=value" pair, cut at its first "="
KeyValue(pair) ==
    LET parts == Split(pair, "=")
    IN  [key |-> parts[1],
         text |-> Join(Tail(parts), <<"=">>)]

\* the query string of an endpoint read back as "key=value" pairs
\* separated by "&"
ParseQuery(e) ==
    IF Len(e) <= 3 THEN <<>>
    ELSE LET pairs == Split(SubSeq(e, 4, Len(e)), "&")
         IN  [i \in 1..Len(pairs) |-> KeyValue(pairs[i])]

\* the entries of a filter mapping whose value is not None, in order
Entries(f) ==
    [i \in 1..Len(Present(f)) |->
        [key |-> <<Present(f)[i].key>>, text |-> Present(f)[i].value.text]]

\* C20: the query string built from a filter mapping, read back as
\* "key=value" pairs separated by "&", gives exactly the mapping's entries
\* whose value is not None, in insertion order, whatever characters the
\* values contain.
C20_FilterRoundTrip ==
    query_endpoint # <<>> => ParseQuery(query_endpoint) = Entries(filters)

(***************************************************************************)
(* Properties of the HTTP service                                          *)
(***************************************************************************)
\* the client call made for the request of handler h raised an exception
\* and the request has been answered
FailedRequest(h) ==
    inbound[h].pc = "responded" /\ inbound[h].client_result.status = "raised"

\* C16: on every route that calls the upstream client, collection routes
\* and by-id routes alike, a NotFoundError of the client is answered with
\* 404, a RateLimitError with 429 and a Retry-After header equal to its
\* retry_after, a ServerError with 503 and an APIError with its status
\* code.
C16_ErrorStatusMapping ==
    \A h \in Handlers :
        FailedRequest(h) =>
            LET exc == inbound[h].client_result
                response == inbound[h].response
            IN  /\ exc.error = "NotFoundError" => response.status = 404
                /\ exc.error = "RateLimitError" =>
                      /\ response.status = 429
                      /\ response.retry_after = ToString(exc.retry_after)
                /\ exc.error = "ServerError" => response.status = 503
                /\ exc.error = "APIError" => response.status = exc.status_code

\* C17: a request whose admission check was rejected is answered in the
\* same step with 429 and "Retry-After: 60", and no cache access and no
\* client call is ever made for it; a request is in its route, has
\* accessed the cache or has called the client only if its admission
\* check returned allowed.
C17_AdmissionGatesUpstream ==
    \A h \in Handlers :
        /\ inbound[h].admission = "rejected" =>
              /\ inbound[h].pc = "responded"
              /\ inbound[h].response = [status |-> 429, retry_after |-> "60"]
              /\ inbound[h].upstream = 0
              /\ inbound[h].cache_ops = 0
        /\ (\/ inbound[h].pc \in {"route", "fetch", "store"}
            \/ inbound[h].upstream > 0
            \/ inbound[h].cache_ops > 0) =>
               inbound[h].admission = "allowed"

\* one request was rejected with 429 while another one, admitted, has
\* called the client
C17_Witness ==
    \E h, g \in Handlers :
        /\ inbound[h].admission = "rejected"
        /\ inbound[h].response.status = 429
        /\ inbound[g].admission = "allowed"
        /\ inbound[g].upstream = 1

\* C18: whatever the interleaving of the handlers, at most `limit`
\* admitted requests of a key lie in the 60-second window ending at the
\* latest check, and every admitted timestamp of that window is still
\* stored for its key: none was lost.
C18_AtomicAdmission ==
    \A ip \in IPs :
        /\ Len(log[ip]) <= requests_per_minute
        /\ Counting(Stored(requests, ip), now) = log[ip]

\* only key "a" has made requests: while one of its requests, admitted,
\* waits for the upstream client, the checks of the other handler filled
\* the window and its latest request was rejected
C18_Witness ==
    /\ "b" \notin DOMAIN requests
    /\ Len(log["a"]) = requests_per_minute
    /\ \E h, g \in Handlers :
          /\ inbound[h].pc = "fetch"
          /\ inbound[g].admission = "rejected"

(***************************************************************************)
(* Properties of the background download                                   *)
(***************************************************************************)
\* C19: download_data_task writes its files, and closes the session of
\* its client, only when all three fetch tasks have finished, also when a
\* fetch failed: no fetch task is running when the session is closed.
C19_JoinedBeforeClose ==
    (main.pc \in {"write", "done", "failed"} \/ session = "closed") =>
        \A t \in TaskSet : tasks[t].state \in {"returned", "raised"}

\* C24: a request goes on from the cache read to the upstream client only
\* when nothing was stored under its cache key at the time of the read (or
\* the read failed with a RedisError): whatever value an earlier request
\* stored, an empty collection included, is answered from the cache with no
\* upstream call.  A request whose upstream fetch failed has made no cache
\* access but its read.
C24_CacheReadThrough ==
    \A h \in Handlers :
        /\ inbound[h].pc = "fetch" =>
              inbound[h].found \in {"absent", "RedisError"}
        /\ FailedRequest(h) => inbound[h].cache_ops = 1

(***************************************************************************)
(* Rate limiter with a clock that runs forever.  is_rate_limited reads     *)
(* the clock only through "current_time - ts" (compared with 60 and 300)   *)
(* and "current_time % 300", so moving every time value back by 300        *)
(* seconds changes nothing it can observe, as long as a timestamp more     *)
(* than 300 seconds old stays more than 300 seconds old.  States are kept  *)
(* in that form: once the clock passes 600 everything moves back by 300,   *)
(* and timestamps that would fall below -1 stay at -1.                     *)
(***************************************************************************)
ShiftDue(t) == t >= 2 * CleanupPeriod

ShiftTime(t) == IF t - CleanupPeriod < -1 THEN -1 ELSE t - CleanupPeriod

ShiftMap(reqs) ==
    [ip \in DOMAIN reqs |-> [i \in 1..Len(reqs[ip]) |-> ShiftTime(reqs[ip][i])]]

\* one call of is_rate_limited(ip) at clock reading current_time
AdmitForever(ip, current_time, lag) ==
    LET res == is_rate_limited(requests, ip, current_time, current_time + lag)
    IN  /\ current_time >= now
        /\ IF ShiftDue(res.clock)
           THEN /\ now' = ShiftTime(res.clock)
                /\ requests' = ShiftMap(res.requests)
           ELSE /\ now' = res.clock
                /\ requests' = res.requests
        /\ UNCHANGED <<last, log, lastAdmit, countAt, lastCheck, alone>>
        /\ UNCHANGED <<clientVars, appVars>>

LiveNext ==
    \E ip \in IPs, t \in Times, lag \in Lags : AdmitForever(ip, t, lag)

\* requests keep arriving
LiveSpec == Init /\ [][LiveNext]_vars /\ WF_vars(LiveNext)

\* C5: a key whose latest timestamp is more than 300 seconds old is
\* eventually removed from the map (or is active again) while requests
\* keep arriving.
C5_IdleKeyEventuallyRemoved ==
    \A ip \in IPs :
        (ip \in DOMAIN requests /\ IsIdle(requests[ip], now))
            ~> (ip \notin DOMAIN requests \/ ~IsIdle(requests[ip], now))

====
